---- MODULE Spec2Model ----
(***************************************************************************)
(* Model of command release (src/release.go): one sequential run of main.  *)
(* Strings are sequences of one-character strings.  The process            *)
(* environment, the file system, git and the release host are the run's    *)
(* environment: their contents are fixed in Init, their outcomes are       *)
(* chosen when the run calls them, and every call is recorded in trace.    *)
(***************************************************************************)
EXTENDS Naturals, Integers, Sequences, FiniteSets, TLC

VARIABLES
    refName,    \* value of GITHUB_REF_NAME (empty when unset)
    pc,         \* position of main
    parts,      \* strings.Split(refName, "/")
    dir,        \* parts[0]
    version,    \* parts[1]
    files,      \* result of readDir
    hash,       \* result of gitHash
    args,       \* the (version, delete) pairs the loop ranges over
    i,          \* index of the loop iteration, 1..3
    exitCode,   \* -1 while running, then the process exit status
    errMsg,     \* the log.Fatalf message kind, "none" when none
    warnings,   \* log.Printf lines
    trace,      \* the os.ReadDir and exec.Command calls made, in order
    releases,   \* the releases the host holds
    releases0   \* the releases the host held when the run started

vars == <<refName, pc, parts, dir, version, files, hash, args, i, exitCode, errMsg,
          warnings, trace, releases, releases0>>

\* ---------------------------------------------------------------- bounds
MaxFields == 3      \* dot-separated numeric fields of a generated version
MaxEntries == 2     \* children of the listed directory
MaxSegments == 3    \* "/"-separated segments of a generated reference name

\* ---------------------------------------------------------------- strings
Digits == {"0", "1", "2", "3", "4", "5", "6", "7", "8", "9"}
Letters ==
    {"a", "b", "c", "d", "e", "f", "g", "h", "i", "j", "k", "l", "m",
     "n", "o", "p", "q", "r", "s", "t", "u", "v", "w", "x", "y", "z",
     "A", "B", "C", "D", "E", "F", "G", "H", "I", "J", "K", "L", "M",
     "N", "O", "P", "Q", "R", "S", "T", "U", "V", "W", "X", "Y", "Z"}
\* unicode.IsSpace.  The characters that have no escape in a string are
\* written by their code point.
Space ==
    {" ", "\n", "\t", "\r", "\f", "U+000B", "U+0085", "U+00A0", "U+1680",
     "U+2000", "U+2001", "U+2002", "U+2003", "U+2004", "U+2005", "U+2006",
     "U+2007", "U+2008", "U+2009", "U+200A", "U+2028", "U+2029", "U+202F",
     "U+205F", "U+3000"}

Last(s) == s[Len(s)]

From(s, k) == SubSeq(s, k, Len(s))

\* Index of the first occurrence of c in s at or after k, 0 when none.
IndexFrom(s, c, k) ==
    IF \E j \in k..Len(s) : s[j] = c
    THEN CHOOSE j \in k..Len(s) : s[j] = c /\ \A m \in k..(j - 1) : s[m] # c
    ELSE 0

RECURSIVE Split(_, _)
\* strings.Split(s, sep) for a one-character sep: always at least one part.
Split(s, sep) ==
    LET j == IndexFrom(s, sep, 1) IN
    IF j = 0 THEN <<s>>
    ELSE <<SubSeq(s, 1, j - 1)>> \o Split(From(s, j + 1), sep)

RECURSIVE TrimLeft(_)
TrimLeft(s) == IF s # <<>> /\ s[1] \in Space THEN TrimLeft(Tail(s)) ELSE s

RECURSIVE TrimRight(_)
TrimRight(s) ==
    IF s # <<>> /\ Last(s) \in Space THEN TrimRight(SubSeq(s, 1, Len(s) - 1)) ELSE s

\* strings.TrimSpace
TrimSpace(s) == TrimRight(TrimLeft(s))

\* ---------------------------------------------------------------- semver
\* golang.org/x/mod/semver, as called by main.

NoParse == [major |-> <<>>, minor |-> <<>>, patch |-> <<>>, ok |-> FALSE]

\* Number of leading decimal digits of v.
DigitRun(v) ==
    CHOOSE n \in 0..Len(v) :
        /\ \A j \in 1..n : v[j] \in Digits
        /\ (n < Len(v) => v[n + 1] \notin Digits)

\* semver.parseInt: a decimal integer without a leading zero, and the rest.
parseInt(v) ==
    IF v = <<>> \/ v[1] \notin Digits THEN [t |-> <<>>, rest |-> <<>>, ok |-> FALSE]
    ELSE LET n == DigitRun(v) IN
         IF v[1] = "0" /\ n # 1 THEN [t |-> <<>>, rest |-> <<>>, ok |-> FALSE]
         ELSE [t |-> SubSeq(v, 1, n), rest |-> From(v, n + 1), ok |-> TRUE]

isIdentChar(c) == c \in Digits \/ c \in Letters \/ c = "-"

\* semver.isBadNum: all digits, more than one, leading zero.
isBadNum(v) == DigitRun(v) = Len(v) /\ Len(v) > 1 /\ v[1] = "0"

\* The dot-separated identifiers of s are non-empty (and, when nums, none is
\* a number with a leading zero) and made of identifier characters.
IdentsOk(s, nums) ==
    /\ \A j \in 1..Len(s) : isIdentChar(s[j]) \/ s[j] = "."
    /\ LET ids == Split(s, ".") IN
       \A k \in 1..Len(ids) : ids[k] # <<>> /\ (nums => ~isBadNum(ids[k]))

\* semver.parsePrerelease: v starts with "-"; the prerelease runs to the
\* first "+" or to the end.
parsePrerelease(v) ==
    LET p == IndexFrom(v, "+", 2)
        e == IF p = 0 THEN Len(v) ELSE p - 1
    IN  IF v = <<>> \/ v[1] # "-" \/ ~IdentsOk(SubSeq(v, 2, e), TRUE)
        THEN [t |-> <<>>, rest |-> <<>>, ok |-> FALSE]
        ELSE [t |-> SubSeq(v, 1, e), rest |-> From(v, e + 1), ok |-> TRUE]

\* semver.parseBuild: v starts with "+"; the build runs to the end.
parseBuild(v) ==
    IF v = <<>> \/ v[1] # "+" \/ ~IdentsOk(Tail(v), FALSE)
    THEN [t |-> <<>>, rest |-> <<>>, ok |-> FALSE]
    ELSE [t |-> v, rest |-> <<>>, ok |-> TRUE]

\* The part of semver.parse after the patch number.
parseSuffix(v) ==
    LET pre == IF v # <<>> /\ v[1] = "-" THEN parsePrerelease(v)
               ELSE [t |-> <<>>, rest |-> v, ok |-> TRUE]
        v2 == pre.rest
        bld == IF v2 # <<>> /\ v2[1] = "+" THEN parseBuild(v2)
               ELSE [t |-> <<>>, rest |-> v2, ok |-> TRUE]
    IN  pre.ok /\ bld.ok /\ bld.rest = <<>>

\* semver.parse: "v" MAJOR [ "." MINOR [ "." PATCH [ "-" PRE ] [ "+" BUILD ] ] ];
\* the shorthands vMAJOR and vMAJOR.MINOR are valid, with the missing fields 0.
parse(v) ==
    IF v = <<>> \/ v[1] # "v" THEN NoParse
    ELSE LET ma == parseInt(Tail(v)) IN
    IF ~ma.ok THEN NoParse
    ELSE IF ma.rest = <<>>
         THEN [major |-> ma.t, minor |-> <<"0">>, patch |-> <<"0">>, ok |-> TRUE]
    ELSE IF ma.rest[1] # "." THEN NoParse
    ELSE LET mi == parseInt(Tail(ma.rest)) IN
    IF ~mi.ok THEN NoParse
    ELSE IF mi.rest = <<>>
         THEN [major |-> ma.t, minor |-> mi.t, patch |-> <<"0">>, ok |-> TRUE]
    ELSE IF mi.rest[1] # "." THEN NoParse
    ELSE LET pa == parseInt(Tail(mi.rest)) IN
    IF ~pa.ok THEN NoParse
    ELSE IF ~parseSuffix(pa.rest) THEN NoParse
    ELSE [major |-> ma.t, minor |-> mi.t, patch |-> pa.t, ok |-> TRUE]

\* semver.IsValid
IsValid(v) == parse(v).ok

\* semver.Major: "v" and the major number, "" when v is invalid.
Major(v) ==
    LET pv == parse(v) IN
    IF ~pv.ok THEN <<>> ELSE SubSeq(v, 1, 1 + Len(pv.major))

\* semver.MajorMinor: the prefix vMAJOR.MINOR, "" when v is invalid; for the
\* shorthand vMAJOR it is vMAJOR.0.
MajorMinor(v) ==
    LET pv == parse(v)
        n == 1 + Len(pv.major)
        j == n + 1 + Len(pv.minor)
    IN  IF ~pv.ok THEN <<>>
        ELSE IF j <= Len(v) /\ v[n + 1] = "." /\ SubSeq(v, n + 2, j) = pv.minor
             THEN SubSeq(v, 1, j)
             ELSE SubSeq(v, 1, n) \o <<".">> \o pv.minor

\* ---------------------------------------------------------------- environment
RECURSIVE JoinWith(_, _)
\* The strings of seq, joined by sep.
JoinWith(seq, sep) ==
    IF seq = <<>> THEN <<>>
    ELSE IF Len(seq) = 1 THEN seq[1]
    ELSE seq[1] \o sep \o JoinWith(Tail(seq), sep)

Comps == {<<>>, <<"a">>, <<"a", "b">>}
NumFields == {<<"0">>, <<"1">>, <<"0", "1">>}
VPrefixes == {<<>>, <<"v">>}
Suffixes == {<<>>, <<"-", "r">>, <<"+", "b">>, <<"-", "0", "1">>, <<".">>}

\* Version-like strings, valid and invalid.
Versions ==
    {p \o JoinWith(fs, <<".">>) \o s :
        p \in VPrefixes,
        fs \in UNION {[1..n -> NumFields] : n \in 0..MaxFields},
        s \in Suffixes}

\* Values of GITHUB_REF_NAME: unset, one segment, component/version, and
\* component/version followed by further segments.
RefNames ==
    Comps \cup Versions \cup
    {JoinWith(<<c, v>> \o [k \in 1..n |-> <<"a">>], <<"/">>) :
        c \in Comps, v \in Versions, n \in 0..(MaxSegments - 2)}

\* Tags that may hold a release before the run: the reference name, its
\* prefixes that end before a "." and, when nothing after its "/" has a
\* ".", the reference name followed by ".0".
InitialTags(ref) ==
    LET s == IndexFrom(ref, "/", 1) IN
    IF s = 0 THEN {}
    ELSE {SubSeq(ref, 1, n) : n \in {m \in (s + 1)..Len(ref) :
                                        m = Len(ref) \/ ref[m + 1] = "."}}
         \cup (IF s < Len(ref) /\ IndexFrom(ref, ".", s + 1) = 0
               THEN {ref \o <<".", "0">>}
               ELSE {})

OldCommit == <<"o">>

Release(tag, target, fs) == [tag |-> tag, target |-> target, files |-> fs]

Names == <<<<"x">>, <<"y">>, <<"z">>>>
Types == {"file", "dir", "symlink"}

\* What os.ReadDir can return: the children sorted by name, names distinct.
Listings ==
    UNION {
        { [k \in 1..n |-> [name |-> Names[idx[k]], type |-> ty[k]]] :
            idx \in {f \in [1..n -> 1..Len(Names)] :
                        \A a, b \in 1..n : a < b => f[a] < f[b]},
            ty \in [1..n -> Types] }
        : n \in 0..MaxEntries }

\* What git show-ref --hash can print: one hash per line, one line per ref
\* whose name ends with the reference name (a tag, and a branch or remote
\* ref of the same name).
GitOutputs == {<<"g", "\n">>, <<"h", "\n">>, <<"g", "\n", "h", "\n">>}

Call(op, arg, target, fs, ok, out) ==
    [op |-> op, arg |-> arg, target |-> target, files |-> fs, ok |-> ok, out |-> out]

HasRelease(rs, tag) == \E r \in rs : r.tag = tag

\* ---------------------------------------------------------------- program
\* path/filepath.Join(dir, name) for a dir without "/": empty elements are
\* ignored and the result is Cleaned, so a leading "." element is dropped.
Join(d, name) ==
    IF d = <<>> \/ d = <<".">> THEN name
    ELSE d \o <<"/">> \o name

RECURSIVE readDirFiles(_, _)
\* readDir's loop: the entries that are not directories, joined with dir.
readDirFiles(d, entries) ==
    IF entries = <<>> THEN <<>>
    ELSE IF entries[1].type = "dir" THEN readDirFiles(d, Tail(entries))
    ELSE <<Join(d, entries[1].name)>> \o readDirFiles(d, Tail(entries))

RECURSIVE readDirWarnings(_)
\* readDir's loop: one warning per entry that is a directory.
readDirWarnings(entries) ==
    IF entries = <<>> THEN <<>>
    ELSE IF entries[1].type = "dir"
         THEN <<[warn |-> "skipping dir", arg |-> entries[1].name]>>
              \o readDirWarnings(Tail(entries))
    ELSE readDirWarnings(Tail(entries))

\* Mutant: extra segments after the version are tolerated.
BadParts_AtLeastTwo(p) == Len(p) < 2

\* Mutant: the split check also rejects an empty component or version.
BadParts_NonEmpty(p) == Len(p) # 2 \/ p[1] = <<>> \/ p[2] = <<>>

\* main's check of the split.
BadParts(p) == Len(p) # 2

\* Mutant: the releases in the order of the package comment, exact first.
LoopArgs_ExactFirst(v) ==
    << [version |-> v, delete |-> FALSE],
       [version |-> MajorMinor(v), delete |-> TRUE],
       [version |-> Major(v), delete |-> TRUE] >>

\* Mutant: the exact version is deleted before it is created too.
LoopArgs_DeleteExact(v) ==
    << [version |-> Major(v), delete |-> TRUE],
       [version |-> MajorMinor(v), delete |-> TRUE],
       [version |-> v, delete |-> TRUE] >>

\* The three (version, delete) pairs main loops over.
LoopArgs(v) ==
    << [version |-> Major(v), delete |-> TRUE],
       [version |-> MajorMinor(v), delete |-> TRUE],
       [version |-> v, delete |-> FALSE] >>

\* tag := dir + "/" + arg.version
Tag(d, v) == d \o <<"/">> \o v

\* Mutant: the tag is passed as the target.
CreateTarget_Tag(tag, target) == tag

\* The --target of gh release create.
CreateTarget(tag, target) == target

\* Mutant: the message is logged and main returns.
Fatal_Return(msg) ==
    /\ exitCode' = 0
    /\ errMsg' = msg
    /\ pc' = "done"

\* log.Fatalf
Fatal(msg) ==
    /\ exitCode' = 1
    /\ errMsg' = msg
    /\ pc' = "done"

Init ==
    /\ refName \in RefNames
    /\ pc = "getenv"
    /\ parts = <<>>
    /\ dir = <<>>
    /\ version = <<>>
    /\ files = <<>>
    /\ hash = <<>>
    /\ args = <<>>
    /\ i = 0
    /\ exitCode = -1
    /\ errMsg = "none"
    /\ warnings = <<>>
    /\ trace = <<>>
    /\ releases0 \in {{Release(t, OldCommit, <<>>) : t \in ts} :
                        ts \in SUBSET InitialTags(refName)}
    /\ releases = releases0

GetEnv ==
    /\ pc = "getenv"
    /\ IF refName = <<>>
       THEN Fatal("missing env var GITHUB_REF_NAME")
       ELSE /\ pc' = "split"
            /\ UNCHANGED <<exitCode, errMsg>>
    /\ UNCHANGED <<refName, parts, dir, version, files, hash, args, i, warnings, trace,
                   releases, releases0>>

SplitRefName ==
    /\ pc = "split"
    /\ parts' = Split(refName, "/")
    /\ IF BadParts(parts')
       THEN /\ Fatal("invalid tag name")
            /\ UNCHANGED <<dir, version>>
       ELSE /\ dir' = parts'[1]
            /\ version' = parts'[2]
            /\ pc' = "validate"
            /\ UNCHANGED <<exitCode, errMsg>>
    /\ UNCHANGED <<refName, files, hash, args, i, warnings, trace, releases, releases0>>

ValidateVersion ==
    /\ pc = "validate"
    /\ IF ~IsValid(version)
       THEN Fatal("invalid version")
       ELSE /\ pc' = "readDir"
            /\ UNCHANGED <<exitCode, errMsg>>
    /\ UNCHANGED <<refName, parts, dir, version, files, hash, args, i, warnings, trace,
                   releases, releases0>>

\* readDir fails: os.ReadDir returned an error.
ReadDirFail ==
    /\ pc = "readDir"
    /\ trace' = Append(trace, Call("readdir", dir, <<>>, <<>>, FALSE, <<>>))
    /\ Fatal("list files")
    /\ UNCHANGED <<refName, parts, dir, version, files, hash, args, i, warnings,
                   releases, releases0>>

\* readDir succeeds; os.ReadDir("") always fails, so dir is not empty.
ReadDirOk ==
    /\ pc = "readDir"
    /\ dir # <<>>
    /\ \E entries \in Listings :
        /\ files' = readDirFiles(dir, entries)
        /\ warnings' = warnings \o readDirWarnings(entries)
        /\ trace' = Append(trace, Call("readdir", dir, <<>>, files', TRUE, entries))
    /\ pc' = "gitHash"
    /\ UNCHANGED <<refName, parts, dir, version, hash, args, i, exitCode, errMsg,
                   releases, releases0>>

\* gitHash fails: git show-ref exited non-zero.
GitHashFail ==
    /\ pc = "gitHash"
    /\ trace' = Append(trace, Call("git show-ref", refName, <<>>, <<>>, FALSE, <<>>))
    /\ Fatal("get hash")
    /\ UNCHANGED <<refName, parts, dir, version, files, hash, args, i, warnings,
                   releases, releases0>>

\* gitHash succeeds with the trimmed output; main then builds the loop's pairs.
GitHashOk ==
    /\ pc = "gitHash"
    /\ \E out \in GitOutputs :
        /\ hash' = TrimSpace(out)
        /\ trace' = Append(trace, Call("git show-ref", refName, <<>>, <<>>, TRUE, out))
    /\ args' = LoopArgs(version)
    /\ i' = 1
    /\ pc' = "ghRelease"
    /\ UNCHANGED <<refName, parts, dir, version, files, exitCode, errMsg, warnings,
                   releases, releases0>>

\* Mutant: a failed delete is returned as an error and main exits on it.
AfterDelete_Fatal(ok, tag) ==
    IF ok
    THEN /\ pc' = "create"
         /\ UNCHANGED <<exitCode, errMsg, warnings>>
    ELSE /\ exitCode' = 1
         /\ errMsg' = "create GitHub release"
         /\ pc' = "done"
         /\ UNCHANGED warnings

\* ghRelease after the delete call: a failure is logged, never returned.
AfterDelete(ok, tag) ==
    /\ warnings' = IF ok THEN warnings
                   ELSE Append(warnings, [warn |-> "could not delete release",
                                          arg |-> tag])
    /\ pc' = "create"
    /\ UNCHANGED <<exitCode, errMsg>>

\* ghRelease, the delete branch.  The host deletes a release only if it
\* holds one at tag; the call can fail in either case.
GhReleaseDelete ==
    /\ pc = "ghRelease"
    /\ args[i].delete
    /\ LET tag == Tag(dir, args[i].version) IN
       \E ok \in {b \in BOOLEAN : b => HasRelease(releases, tag)} :
        /\ trace' = Append(trace, Call("delete", tag, <<>>, <<>>, ok, <<>>))
        /\ releases' = IF ok THEN {r \in releases : r.tag # tag} ELSE releases
        /\ AfterDelete(ok, tag)
    /\ UNCHANGED <<refName, parts, dir, version, files, hash, args, i, releases0>>

\* Mutant: the error of the create call is dropped.
AfterCreate_IgnoreErr(ok) ==
    IF i = Len(args)
    THEN /\ pc' = "done"
         /\ exitCode' = 0
         /\ UNCHANGED <<i, errMsg>>
    ELSE /\ pc' = "ghRelease"
         /\ i' = i + 1
         /\ UNCHANGED <<exitCode, errMsg>>

\* After the create call: ghRelease returns its error, main exits on it,
\* else goes on to the next pair, and returns after the last.
AfterCreate(ok) ==
    IF ~ok
    THEN /\ Fatal("create GitHub release")
         /\ UNCHANGED i
    ELSE IF i = Len(args)
    THEN /\ pc' = "done"
         /\ exitCode' = 0
         /\ UNCHANGED <<i, errMsg>>
    ELSE /\ pc' = "ghRelease"
         /\ i' = i + 1
         /\ UNCHANGED <<exitCode, errMsg>>

\* ghRelease, the create call.  The host creates a release only if it holds
\* none at tag; the call can fail in either case.
GhReleaseCreate ==
    /\ pc = "create" \/ (pc = "ghRelease" /\ ~args[i].delete)
    /\ LET tag == Tag(dir, args[i].version) IN
       \E ok \in {b \in BOOLEAN : b => ~HasRelease(releases, tag)} :
        /\ trace' = Append(trace, Call("create", tag, CreateTarget(tag, hash), files, ok, <<>>))
        /\ releases' = IF ok
                       THEN releases \cup {Release(tag, CreateTarget(tag, hash), files)}
                       ELSE releases
        /\ AfterCreate(ok)
    /\ UNCHANGED <<refName, parts, dir, version, files, hash, args, warnings, releases0>>

Next ==
    \/ GetEnv
    \/ SplitRefName
    \/ ValidateVersion
    \/ ReadDirFail
    \/ ReadDirOk
    \/ GitHashFail
    \/ GitHashOk
    \/ GhReleaseDelete
    \/ GhReleaseCreate

Spec == Init /\ [][Next]_vars

\* ---------------------------------------------------------------- properties
\* What the run's input and its recorded calls say, read off refName and
\* trace alone.

CountSlash(s) == Cardinality({j \in 1..Len(s) : s[j] = "/"})

\* The text before and after the first "/" of a reference name.
CompOf(ref) == SubSeq(ref, 1, IndexFrom(ref, "/", 1) - 1)
VersionOf(ref) == From(ref, IndexFrom(ref, "/", 1) + 1)

OneSlash == CountSlash(refName) = 1
ValidRef == OneSlash /\ IsValid(VersionOf(refName))

IsCreate(c) == c.op = "create"
IsHosting(c) == c.op \in {"delete", "create"}
Creates == SelectSeq(trace, IsCreate)
Hosting == SelectSeq(trace, IsHosting)

OpTag(c) == [op |-> c.op, arg |-> c.arg]
OpTags(cs) == [k \in 1..Len(cs) |-> OpTag(cs[k])]
TagsOf(cs) == [k \in 1..Len(cs) |-> cs[k].arg]

IsPrefix(a, b) == Len(a) <= Len(b) /\ SubSeq(b, 1, Len(a)) = a

MajorTag == CompOf(refName) \o <<"/">> \o Major(VersionOf(refName))
MajorMinorTag == CompOf(refName) \o <<"/">> \o MajorMinor(VersionOf(refName))
ExactTag == CompOf(refName) \o <<"/">> \o VersionOf(refName)

\* No call that main treats as fatal has failed.
NoFatalCallFailed == \A k \in 1..Len(trace) : trace[k].op # "delete" => trace[k].ok

RefA101 == <<"a", "/", "v", "1", ".", "0", ".", "1">>

\* C1: when the version is valid and listing, commit resolution and every
\* create succeed, the finished run has issued exactly three creates, for
\* component/Major(V), component/MajorMinor(V), component/V, in that order.
C1_ThreeCreatesInOrder ==
    (pc = "done" /\ ValidRef /\ NoFatalCallFailed)
        => TagsOf(Creates) = <<MajorTag, MajorMinorTag, ExactTag>>

C1_Witness ==
    /\ pc = "done"
    /\ refName = RefA101 \o <<"-", "r">>
    /\ NoFatalCallFailed
    /\ TagsOf(Creates) = << <<"a", "/", "v", "1">>,
                            <<"a", "/", "v", "1", ".", "0">>,
                            RefA101 \o <<"-", "r">> >>

\* C2: a failed create is the last call of the run and the run has exited
\* non-zero with it: no delete and no create follows.
C2_CreateFailureAborts ==
    \A k \in 1..Len(trace) :
        (trace[k].op = "create" /\ ~trace[k].ok)
            => (k = Len(trace) /\ pc = "done" /\ exitCode = 1)

C2_Witness ==
    /\ pc = "done"
    /\ exitCode = 1
    /\ refName = RefA101
    /\ Len(Creates) = 2
    /\ Creates[2].arg = MajorMinorTag
    /\ ~Creates[2].ok
    /\ \A k \in 1..Len(Hosting) : Hosting[k].arg # ExactTag

\* C3: whatever a delete returns, the run goes on to the create of the same
\* tag, and a run whose three creates succeeded exits zero.
C3_DeleteNeverFatal ==
    /\ \A k \in 1..Len(trace) :
        trace[k].op = "delete" =>
            IF k = Len(trace)
            THEN /\ pc = "create"
                 /\ exitCode = -1
                 /\ Tag(dir, args[i].version) = trace[k].arg
                 /\ ENABLED GhReleaseCreate
            ELSE /\ trace[k + 1].op = "create"
                 /\ trace[k + 1].arg = trace[k].arg
    /\ (pc = "done" /\ Len(Creates) = 3 /\ \A k \in 1..3 : Creates[k].ok)
        => exitCode = 0

C3_Witness ==
    /\ exitCode = 0
    /\ Len(Hosting) = 5
    /\ Hosting[1].op = "delete" /\ ~Hosting[1].ok
    /\ Hosting[3].op = "delete" /\ Hosting[3].ok

\* C4: the release calls of a run are a prefix of delete(major),
\* create(major), delete(major.minor), create(major.minor), create(exact),
\* and a run that exits zero has issued all five.
C4_PerTagSequence ==
    /\ Hosting # <<>> =>
        IsPrefix(OpTags(Hosting),
                 << [op |-> "delete", arg |-> MajorTag],
                    [op |-> "create", arg |-> MajorTag],
                    [op |-> "delete", arg |-> MajorMinorTag],
                    [op |-> "create", arg |-> MajorMinorTag],
                    [op |-> "create", arg |-> ExactTag] >>)
    /\ exitCode = 0 => Len(Hosting) = 5

C4_Witness ==
    /\ exitCode = 0
    /\ refName = RefA101
    /\ OpTags(Hosting) =
         << [op |-> "delete", arg |-> <<"a", "/", "v", "1">>],
            [op |-> "create", arg |-> <<"a", "/", "v", "1">>],
            [op |-> "delete", arg |-> <<"a", "/", "v", "1", ".", "0">>],
            [op |-> "create", arg |-> <<"a", "/", "v", "1", ".", "0">>],
            [op |-> "create", arg |-> RefA101] >>

\* C5: a reference name that is empty, or has not exactly one "/", or whose
\* version is not a valid semantic version, makes the run exit non-zero
\* without any directory listing or subprocess call.
C5_ValidationGates ==
    (refName = <<>> \/ ~OneSlash \/ ~IsValid(VersionOf(refName)))
        => /\ trace = <<>>
           /\ exitCode # 0
           /\ pc \in {"getenv", "split", "validate", "done"}
           /\ pc = "done" => exitCode = 1

C5_Witness ==
    /\ pc = "done"
    /\ refName = <<"a", "/", "1", ".", "0", ".", "1">>
    /\ errMsg = "invalid version"
    /\ exitCode = 1
    /\ trace = <<>>

EmptySide == OneSlash /\ (CompOf(refName) = <<>> \/ VersionOf(refName) = <<>>)

\* C6 as stated: a reference name with one "/" and an empty component or
\* version is rejected at the split check, before validation and before any
\* call, and main never holds a (dir, version) pair with an empty side.
C6_EmptySideRejectedAtSplit ==
    (EmptySide /\ pc \notin {"getenv", "split"})
        => (pc = "done" /\ errMsg = "invalid tag name" /\ trace = <<>>)

\* C6 amended: such a name passes the split check.  With an empty version
\* it is rejected by version validation, before any call; with an empty
\* component and a valid version main goes on with dir = "" and the first
\* call it makes is the listing of "".
C6_EmptySidePassesSplit ==
    EmptySide =>
        /\ errMsg # "invalid tag name"
        /\ pc \notin {"getenv", "split"} => (dir = CompOf(refName) /\ version = VersionOf(refName))
        /\ (VersionOf(refName) = <<>> /\ pc \notin {"getenv", "split", "validate"})
            => (pc = "done" /\ errMsg = "invalid version" /\ exitCode = 1 /\ trace = <<>>)
        /\ (CompOf(refName) = <<>> /\ IsValid(VersionOf(refName)) /\ trace # <<>>)
            => (trace[1].op = "readdir" /\ trace[1].arg = <<>>)

C6_Witness ==
    /\ refName = <<"/", "v", "1", ".", "0", ".", "1">>
    /\ pc = "readDir"
    /\ dir = <<>>
    /\ version = <<"v", "1", ".", "0", ".", "1">>
    /\ errMsg = "none"

\* C7: a finished run has exit status 0 exactly when its three creates were
\* issued and succeeded, and status 1 otherwise; invalid input and a failed
\* listing, commit resolution or create give status 1; skipped directories
\* and failed deletes do not enter into it.
C7_ExitStatus ==
    /\ pc # "done" => exitCode = -1
    /\ pc = "done" =>
        /\ exitCode \in {0, 1}
        /\ exitCode = 0 <=> (Len(Creates) = 3 /\ \A k \in 1..3 : Creates[k].ok)
        /\ (~ValidRef \/ ~NoFatalCallFailed) => exitCode = 1

C7_Witness ==
    /\ pc = "done"
    /\ exitCode = 0
    /\ \E k \in 1..Len(warnings) : warnings[k].warn = "skipping dir"
    /\ \E k \in 1..Len(warnings) : warnings[k].warn = "could not delete release"

\* C8: the directory is listed once and the commit resolved once, from the
\* full reference name, both before any release call; every create carries
\* the resolved commit and the listed files.
C8_ListOnceResolveOnce ==
    /\ Cardinality({k \in 1..Len(trace) : trace[k].op = "readdir"}) <= 1
    /\ Cardinality({k \in 1..Len(trace) : trace[k].op = "git show-ref"}) <= 1
    /\ \A k \in 1..Len(trace) :
        IsHosting(trace[k]) =>
            /\ k > 2
            /\ trace[1].op = "readdir" /\ trace[1].ok
            /\ trace[1].arg = CompOf(refName)
            /\ trace[2].op = "git show-ref" /\ trace[2].ok
            /\ trace[2].arg = refName
    /\ \A k \in 1..Len(trace) :
        IsCreate(trace[k]) =>
            /\ trace[k].target = TrimSpace(trace[2].out)
            /\ trace[k].files = trace[1].files

C8_Witness ==
    /\ exitCode = 0
    /\ Len(Creates) = 3
    /\ Len(trace[1].files) = 2
    /\ \A k \in 1..3 : Creates[k].target = <<"h">> /\ Creates[k].files = trace[1].files

IsRegular(e) == e.type = "file"
RegularPaths(d, entries) ==
    LET reg == SelectSeq(entries, IsRegular) IN
    [k \in 1..Len(reg) |-> d \o <<"/">> \o reg[k].name]

\* C9: the asset list of a successful listing is exactly the children that
\* are regular files, each as component/name, in listing order.
C9_OnlyRegularFiles ==
    \A k \in 1..Len(trace) :
        (trace[k].op = "readdir" /\ trace[k].ok)
            => trace[k].files = RegularPaths(trace[k].arg, trace[k].out)

\* C10: for every version the validator accepts, no delete is issued for
\* the tag component/version, and a release held at that tag when the run
\* starts is still held, unchanged, at every later point of the run.
C10_ExactNeverMoves ==
    ValidRef =>
        /\ \A k \in 1..Len(trace) : trace[k].op = "delete" => trace[k].arg # ExactTag
        /\ \A r \in releases0 : r.tag = ExactTag => r \in releases
====
